---- MODULE Spec2Model ----
(***************************************************************************)
(* Buffered ClickHouse writers of solixdb-indexer.                         *)
(*                                                                         *)
(* The repository carries two writers, both called ClickHouseStorage:      *)
(*   src/src/storage.rs     two buffers, bounded retry, re-add on failure  *)
(*   src/src/clickhouse.rs  four buffers, a single write attempt           *)
(* The variable impl says which of the two a behaviour runs.  Tasks call   *)
(* the insert operations and flush_all concurrently.  The awaits of the    *)
(* source are the step boundaries: a step starts when an await completes   *)
(* (a mutex is handed over, a store request ends, a sleep ends) and runs   *)
(* to the next await or to the return.  The store write of one batch is    *)
(* all-or-nothing (spec 4.3), so it is one step that succeeds or fails.    *)
(***************************************************************************)
EXTENDS Integers, Sequences, FiniteSets, TLC

\* ---------------------------------------------------------------- bounds
NumTasks == 2
MaxRows == 3
MaxFlushAll == 1
batch_size == 2
MaxTx == 2
MaxIx == 3

\* ------------------------------------------------------ program constants
max_retries == 3

Tasks == 1..NumTasks
Rows == 1..MaxRows
NoTask == 0

VARIABLES
    impl,       \* "storage" or "clickhouse": which ClickHouseStorage runs
    buffer,     \* table -> rows pending in the Arc<Mutex<Vec<_>>>
    lock,       \* table -> task holding the MutexGuard, NoTask when free
    store,      \* table -> the INSERT blocks ClickHouse has taken, in arrival order
    pc,         \* task -> position inside the running call
    op,         \* task -> operation being run
    tbl,        \* task -> table the call is working on
    batch,      \* task -> the local Vec drained from the buffer
    attempt,    \* task -> loop variable of the task's last flush_*_batch
    ret,        \* result of the call that returned last
    nextRow,    \* the record the next push appends (records are named in push order)
    flushCalls, \* number of flush_all calls started
    accepted,   \* table -> rows pushed so far, in push order (history)
    restored,   \* table -> the buffer holds a batch an abandoned flush gave back
    queries,    \* number of SYSTEM FLUSH ASYNC INSERT QUEUE statements sent
    fault,      \* the cause of the store's failures in this run
    status,     \* the on-chain status of the transactions this run is fed
    wpc,        \* firehose thread -> position inside the transaction handler
    ix,         \* firehose thread -> the instruction the handler is working on
    metrics,    \* helpers.rs: parser name -> (success, failed) AtomicU64 pair
    counter,    \* parser.rs: parser name -> ParserEntry.counter
    decoded,    \* parser name -> decoder results so far, by outcome (history)
    submitted,  \* table -> rows handed to the writer's insert operation, in call order
    mainPc,     \* position of main()
    txs,        \* transactions handed to the handler so far
    taken,      \* instructions the handlers have taken from their transactions
    parsers,    \* MultiParser.parsers: program address -> ParserEntry
    registered, \* the add_parser calls made so far, in call order (history)
    clear_env,  \* the value of the environment variable CLEAR_DB_ON_START
    config_file,\* what config.toml says about clickhouse.clear_on_start
    server,     \* which statements the ClickHouse server refuses in this run
    statements, \* the statements sent to the server so far, in order (history)
    todo,       \* the statements the running constructor has still to send
    built,      \* number of ClickHouseStorage values a constructor has returned
    flushed,    \* result of the flush_all of main()'s shutdown, "none" before it
    block_time, \* the timestamp handed to the time-dimension computation
    dims,       \* the (date, hour[, day_of_week]) computed from block_time, <<>> before
    parsed,     \* the text format!("{:?}", inst) gives for the decoders' results
    protocol_name \* record (by its name) -> protocol_name of the row, "none" outside a handler

\* The state of the writers (all but impl) and the state of the pipeline.
writerVars == <<buffer, lock, store, pc, op, tbl, batch, attempt, ret,
                nextRow, flushCalls, accepted, restored, queries>>

pipelineVars == <<wpc, ix, metrics, counter, decoded, submitted, mainPc, txs, taken>>

\* What the surroundings decide for a whole run.
envVars == <<fault, status>>

registryVars == <<parsers, registered>>

startupVars == <<clear_env, config_file, server, statements, todo, built>>

pureVars == <<block_time, dims, parsed>>

\* The state outside the writers and the transaction handlers.
restVars == <<registryVars, startupVars, pureVars, flushed>>

bootVars == <<restVars, protocol_name>>

vars == <<impl, writerVars, envVars, pipelineVars, bootVars>>

\* ------------------------------------------------------------- the tables
storage_tables == <<"transactions", "failed_transactions">>

clickhouse_tables ==
    <<"transactions", "transaction_payloads", "protocol_events", "failed_transactions">>

TableOrder(i) == IF i = "storage" THEN storage_tables ELSE clickhouse_tables

TableSet(i) == {TableOrder(i)[k] : k \in 1..Len(TableOrder(i))}

IndexOf(i, tb) == CHOOSE k \in 1..Len(TableOrder(i)) : TableOrder(i)[k] = tb

IsLast(i, tb) == IndexOf(i, tb) = Len(TableOrder(i))

NextTable(i, tb) == TableOrder(i)[IndexOf(i, tb) + 1]

storage_inserts == {"insert_transaction", "insert_failed"}

clickhouse_inserts ==
    {"insert_transaction", "insert_payload", "insert_protocol_event",
     "insert_failed_transaction"}

OpTable(o) ==
    CASE o = "insert_transaction" -> "transactions"
      [] o = "insert_failed" -> "failed_transactions"
      [] o = "insert_failed_transaction" -> "failed_transactions"
      [] o = "insert_payload" -> "transaction_payloads"
      [] o = "insert_protocol_event" -> "protocol_events"
      [] OTHER -> "transactions"

\* ------------------------------------------------------------ sequences
RowsOf(s) == {s[k] : k \in 1..Len(s)}

Occurrences(s, r) == Cardinality({k \in 1..Len(s) : s[k] = r})

\* ------------------------------------------------------------------ Init
InitWriter(i) ==
    /\ impl = i
    /\ buffer = [tb \in TableSet(i) |-> <<>>]
    /\ lock = [tb \in TableSet(i) |-> NoTask]
    /\ store = [tb \in TableSet(i) |-> <<>>]
    /\ pc = [t \in Tasks |-> "idle"]
    /\ op = [t \in Tasks |-> "none"]
    /\ tbl = [t \in Tasks |-> "transactions"]
    /\ batch = [t \in Tasks |-> <<>>]
    /\ attempt = [t \in Tasks |-> 0]
    /\ ret = "none"
    /\ nextRow = 1
    /\ flushCalls = 0
    /\ accepted = [tb \in TableSet(i) |-> <<>>]
    /\ restored = [tb \in TableSet(i) |-> FALSE]
    /\ queries = 0
    /\ protocol_name = <<>>

\* ------------------------------------------------------------ the pipeline
\* The two causes of a failed store write (spec 7): network or availability,
\* and schema or credentials.
ErrorKinds == {"transient", "non_transient"}

\* build_parser_map() / add_parser(): program address -> parser name.
parser_map == [a \in {"JUP6", "6EF8"} |-> IF a = "JUP6" THEN "jupiter_v6" ELSE "pump_fun"]

ParserNames == {parser_map[a] : a \in DOMAIN parser_map}

\* build_full_account_list(): the account keys of the message, then the loaded ones.
all_accounts == <<"JUP6", "6EF8", "wallet">>

\* ix.program_id_index: the indices of all_accounts and the first one beyond it.
ProgramIdx == 0..Len(all_accounts)

\* ix.accounts: all indices in range, or one of them out of range.
IxAccounts == {<<2>>, <<2, 3>>}

\* The errors a decoder returns, as texts (sequences of pieces).
DecodeErrors == {<<"bad discriminator">>}

\* The handler's locals when it works on no instruction.
NoIx == [program |-> "none", accounts |-> <<>>, resolved |-> <<>>, error |-> <<>>]

\* The metrics map process_transaction is given (its caller builds it): a pair
\* of counters, both 0, for every parser of the parser map.
metrics_new == [n \in ParserNames |-> [success |-> 0, failed |-> 0]]

\* add_parser(): counter: AtomicU64::new(0)
counter_new == [n \in ParserNames |-> 0]

InitHandlers ==
    /\ wpc = [t \in Tasks |-> "idle"]
    /\ ix = [t \in Tasks |-> NoIx]
    /\ metrics = metrics_new
    /\ counter = counter_new
    /\ decoded = [n \in ParserNames |-> [ok |-> 0, err |-> 0]]
    /\ submitted = [tb \in TableSet(impl) |-> <<>>]
    /\ txs = 0
    /\ taken = 0

\* The handlers at their start, main() about to call firehose.
InitPipeline ==
    /\ InitHandlers
    /\ mainPc = "firehose"

\* MultiParser::new: parsers: HashMap::new().
InitRegistry ==
    /\ parsers = <<>>
    /\ registered = <<>>

\* No statement has been sent and no constructor is running; the server accepts
\* every statement and nothing asks for a clear.
InitServer ==
    /\ clear_env = "false"
    /\ config_file = "absent"
    /\ server = "up"
    /\ statements = <<>>
    /\ todo = <<>>
    /\ built = 0
    /\ flushed = "none"

\* No time dimension has been computed yet; the decoders' results print as a
\* struct-like variant.
InitPure ==
    /\ block_time = 0
    /\ dims = <<>>
    /\ parsed = <<"Swap", " ", "{", " ", "amount", " ", "}">>

InitBoot == InitRegistry /\ InitServer /\ InitPure

\* A writer and a pipeline at their start; the store's failures are transient.
InitFor(i) ==
    /\ InitWriter(i)
    /\ InitBoot
    /\ fault = "transient"
    /\ status = "Ok"
    /\ InitPipeline

\* Mutant of threshold_reached: the comparison is strict.
threshold_reached_strict(buf) == Len(buf) > batch_size

\* if buffer.len() >= self.batch_size
threshold_reached(buf) == Len(buf) >= batch_size

\* Mutant of drain: the rows are cloned and the Vec keeps them.
drain_clone(buf) == [batch |-> buf, rest |-> buf]

\* buffer.drain(..).collect::<Vec<_>>(): the batch taken and what the Vec keeps.
drain(buf) == [batch |-> buf, rest |-> <<>>]

\* self.<table>_buffer.lock().await has returned the guard to task t.
take_guard(l, tb, t) == [l EXCEPT ![tb] = t]

\* Mutant of drop_guard: the guard is never dropped.
drop_guard_forgotten(l, tb) == l

\* drop(buffer), or the guard leaving its block: the mutex is free again.
drop_guard(l, tb) == [l EXCEPT ![tb] = NoTask]

\* Dropping every MutexGuard the task still owns (end of the function body).
DropGuards(t) == [tb \in DOMAIN lock |-> IF lock[tb] = t THEN NoTask ELSE lock[tb]]

\* The call returns r: locals are dropped, the task is free for a new call.
Return(t, r) ==
    /\ pc' = [pc EXCEPT ![t] = "idle"]
    /\ ret' = r
    /\ batch' = [batch EXCEPT ![t] = <<>>]
    /\ attempt' = attempt
    /\ op' = [op EXCEPT ![t] = "none"]
    /\ tbl' = [tbl EXCEPT ![t] = "transactions"]

\* Mutant of Block: the loop over the batch skips its first row.
Block_short(t) == SubSeq(batch[t], 2, Len(batch[t]))

\* One INSERT block as the table keeps it: the rows of one request.
Block(t) == batch[t]

\* The protocol_name field of the row a handler has built for instruction i; a
\* caller that is no handler has no instruction.
protocol_name_of(i) ==
    IF i.program \in DOMAIN parser_map THEN parser_map[i.program] ELSE "none"

\* Insert calls made so far: the records pushed and the calls waiting to push.
InsertsStarted ==
    (nextRow - 1) + Cardinality({t \in Tasks : pc[t] = "lock" /\ op[t] # "flush_all"})

\* ============================================================ storage.rs
\* Task t enters insert operation o and waits for the table's buffer lock.
insert_entered(t, o) ==
    /\ op' = [op EXCEPT ![t] = o]
    /\ tbl' = [tbl EXCEPT ![t] = OpTable(o)]
    /\ pc' = [pc EXCEPT ![t] = "lock"]
    /\ attempt' = [attempt EXCEPT ![t] = 0]
    /\ UNCHANGED <<restored, buffer, lock, store, batch, ret, nextRow, flushCalls,
                   accepted, queries>>

\* A task calls insert_transaction / insert_failed with a fresh record.
storage_call_insert(t) ==
    /\ impl = "storage"
    /\ pc[t] = "idle"
    /\ InsertsStarted < MaxRows
    /\ \E o \in storage_inserts : insert_entered(t, o)
    /\ UNCHANGED <<impl, envVars, bootVars, pipelineVars>>

\* A task calls flush_all.
storage_call_flush_all(t) ==
    /\ impl = "storage"
    /\ pc[t] = "idle"
    /\ flushCalls < MaxFlushAll
    /\ flushCalls' = flushCalls + 1
    /\ op' = [op EXCEPT ![t] = "flush_all"]
    /\ tbl' = [tbl EXCEPT ![t] = storage_tables[1]]
    /\ pc' = [pc EXCEPT ![t] = "lock"]
    /\ attempt' = [attempt EXCEPT ![t] = 0]
    /\ UNCHANGED <<impl, envVars, bootVars, pipelineVars, restored, buffer, lock, store, batch, ret, nextRow,
                   accepted, queries>>

\* let mut buffer = self.<table>_buffer.lock().await; buffer.push(x);
\* if buffer.len() >= batch_size { drain; drop(buffer); flush ... } Ok(())
\* No await lies between taking the guard and dropping it: one step.
storage_insert_push(t) ==
    /\ impl = "storage"
    /\ pc[t] = "lock"
    /\ op[t] \in storage_inserts
    /\ lock[tbl[t]] = NoTask
    /\ accepted' = [accepted EXCEPT ![tbl[t]] = Append(@, nextRow)]
    /\ lock' = drop_guard(take_guard(lock, tbl[t], t), tbl[t])
    /\ LET pushed == Append(buffer[tbl[t]], nextRow) IN
       IF threshold_reached(pushed)
       THEN /\ buffer' = [buffer EXCEPT ![tbl[t]] = drain(pushed).rest]
            /\ batch' = [batch EXCEPT ![t] = drain(pushed).batch]
            /\ restored' = [restored EXCEPT ![tbl[t]] = FALSE]
            /\ attempt' = [attempt EXCEPT ![t] = 1]
            /\ pc' = [pc EXCEPT ![t] = "try"]
            /\ UNCHANGED <<ret, op, tbl>>
       ELSE /\ buffer' = [buffer EXCEPT ![tbl[t]] = pushed]
            /\ restored' = restored
            /\ Return(t, "ok")
    /\ nextRow' = nextRow + 1
    /\ protocol_name' = Append(protocol_name, protocol_name_of(ix[t]))
    /\ UNCHANGED <<impl, envVars, restVars, pipelineVars, store, flushCalls, queries>>

\* flush_all after a table is done: the next table, or the final statement.
storage_flush_all_next(t) ==
    IF IsLast("storage", tbl[t])
    THEN /\ pc' = [pc EXCEPT ![t] = "sync"]
         /\ tbl' = tbl
    ELSE /\ pc' = [pc EXCEPT ![t] = "lock"]
         /\ tbl' = [tbl EXCEPT ![t] = NextTable("storage", tbl[t])]

\* let b = { let mut buffer = lock; buffer.drain(..).collect() }; if !b.is_empty() {..}
storage_flush_all_drain(t) ==
    /\ impl = "storage"
    /\ pc[t] = "lock"
    /\ op[t] = "flush_all"
    /\ lock[tbl[t]] = NoTask
    /\ lock' = drop_guard(take_guard(lock, tbl[t], t), tbl[t])
    /\ buffer' = [buffer EXCEPT ![tbl[t]] = drain(@).rest]
    /\ restored' = [restored EXCEPT ![tbl[t]] = FALSE]
    /\ IF drain(buffer[tbl[t]]).batch # <<>>
       THEN /\ batch' = [batch EXCEPT ![t] = drain(buffer[tbl[t]]).batch]
            /\ attempt' = [attempt EXCEPT ![t] = 1]
            /\ pc' = [pc EXCEPT ![t] = "try"]
            /\ tbl' = tbl
       ELSE /\ storage_flush_all_next(t)
            /\ UNCHANGED <<batch, attempt>>
    /\ UNCHANGED <<impl, envVars, bootVars, pipelineVars, store, op, ret, nextRow, flushCalls, accepted,
                   queries>>

\* One pass of the retry loop of flush_transactions_batch / flush_failed_batch
\* whose try_insert_* call succeeds: the whole batch is in the table.
storage_try_insert_ok(t) ==
    /\ impl = "storage"
    /\ pc[t] = "try"
    /\ store' = [store EXCEPT ![tbl[t]] = Append(@, Block(t))]
    /\ IF op[t] = "flush_all"
       THEN /\ storage_flush_all_next(t)
            /\ batch' = [batch EXCEPT ![t] = <<>>]
            /\ attempt' = [attempt EXCEPT ![t] = 0]
            /\ UNCHANGED <<ret, op>>
       ELSE Return(t, "ok")
    /\ UNCHANGED <<impl, envVars, bootVars, pipelineVars, restored, buffer, lock, nextRow, flushCalls, accepted,
                   queries>>

\* The retry loop with a delay and a further pass after the last attempt too.
retry_follows_last(a) == a <= max_retries

\* for attempt in 1..=max_retries { .. Err(e) => { if attempt < max_retries
\* { sleep } } }: a failed pass is followed by a delay and another pass.
retry_follows(a) == a < max_retries

\* One pass of the retry loop whose try_insert_* call fails: nothing is written.
\* Below max_retries the task sleeps; at max_retries flush_*_batch returns Err,
\* which an insert handles by re-adding and flush_all propagates with `?`.
storage_try_insert_err(t) ==
    /\ impl = "storage"
    /\ pc[t] = "try"
    /\ fault # "none"
    /\ IF retry_follows(attempt[t])
       THEN /\ pc' = [pc EXCEPT ![t] = "sleep"]
            /\ UNCHANGED <<batch, attempt, ret, op, tbl>>
       ELSE IF op[t] = "flush_all"
            THEN Return(t, "err")
            ELSE /\ pc' = [pc EXCEPT ![t] = "relock"]
                 /\ UNCHANGED <<batch, attempt, ret, op, tbl>>
    /\ UNCHANGED <<impl, envVars, bootVars, pipelineVars, restored, buffer, lock, store, nextRow, flushCalls, accepted, queries>>

\* tokio::time::sleep(1000 * attempt ms) is over: next pass of the loop.
storage_sleep(t) ==
    /\ impl = "storage"
    /\ pc[t] = "sleep"
    /\ attempt' = [attempt EXCEPT ![t] = @ + 1]
    /\ pc' = [pc EXCEPT ![t] = "try"]
    /\ UNCHANGED <<impl, envVars, bootVars, pipelineVars, restored, buffer, lock, store, op, tbl, batch, ret, nextRow,
                   flushCalls, accepted, queries>>

\* Mutant of storage_readd: the buffer is overwritten with the batch.
storage_readd_overwrite(buf, b) == b

\* The rows an insert puts back after its flush was given up.
storage_readd(buf, b) == buf \o b

\* let mut buffer = self.<table>_buffer.lock().await; buffer.extend(batch);
\* the guard is dropped; Ok(())
storage_restore(t) ==
    /\ impl = "storage"
    /\ pc[t] = "relock"
    /\ lock[tbl[t]] = NoTask
    /\ buffer' = [buffer EXCEPT ![tbl[t]] = storage_readd(@, batch[t])]
    /\ restored' = [restored EXCEPT ![tbl[t]] = TRUE]
    /\ lock' = drop_guard(take_guard(lock, tbl[t], t), tbl[t])
    /\ Return(t, "ok")
    /\ UNCHANGED <<impl, envVars, bootVars, pipelineVars, store, nextRow, flushCalls, accepted, queries>>

\* client.query("SYSTEM FLUSH ASYNC INSERT QUEUE").execute().await.ok(); Ok(())
storage_flush_all_sync(t) ==
    /\ impl = "storage"
    /\ pc[t] = "sync"
    /\ queries' = queries + 1
    /\ Return(t, "ok")
    /\ UNCHANGED <<impl, envVars, bootVars, pipelineVars, restored, buffer, lock, store, nextRow, flushCalls, accepted>>

NextStorage ==
    \E t \in Tasks :
       \/ storage_call_insert(t)
       \/ storage_call_flush_all(t)
       \/ storage_insert_push(t)
       \/ storage_flush_all_drain(t)
       \/ storage_try_insert_ok(t)
       \/ storage_try_insert_err(t)
       \/ storage_sleep(t)
       \/ storage_restore(t)
       \/ storage_flush_all_sync(t)

InitStorage == InitFor("storage")

SpecStorage == InitStorage /\ [][NextStorage]_vars

\* ========================================================= clickhouse.rs
\* A task calls one of the four insert operations with a fresh record.
clickhouse_call_insert(t) ==
    /\ impl = "clickhouse"
    /\ pc[t] = "idle"
    /\ InsertsStarted < MaxRows
    /\ \E o \in clickhouse_inserts :
          /\ op' = [op EXCEPT ![t] = o]
          /\ tbl' = [tbl EXCEPT ![t] = OpTable(o)]
    /\ pc' = [pc EXCEPT ![t] = "lock"]
    /\ attempt' = [attempt EXCEPT ![t] = 0]
    /\ UNCHANGED <<impl, envVars, bootVars, pipelineVars, restored, buffer, lock, store, batch, ret, nextRow, flushCalls,
                   accepted, queries>>

\* A task calls flush_all.
clickhouse_call_flush_all(t) ==
    /\ impl = "clickhouse"
    /\ pc[t] = "idle"
    /\ flushCalls < MaxFlushAll
    /\ flushCalls' = flushCalls + 1
    /\ op' = [op EXCEPT ![t] = "flush_all"]
    /\ tbl' = [tbl EXCEPT ![t] = clickhouse_tables[1]]
    /\ pc' = [pc EXCEPT ![t] = "lock"]
    /\ attempt' = [attempt EXCEPT ![t] = 0]
    /\ UNCHANGED <<impl, envVars, bootVars, pipelineVars, restored, buffer, lock, store, batch, ret, nextRow,
                   accepted, queries>>

\* let mut buffer = self.<table>_buffer.lock().await; buffer.push(x);
\* if buffer.len() >= batch_size { drain; drop(buffer); ... } Ok(())
\* No await lies between taking the guard and dropping it: one step.
clickhouse_insert_push(t) ==
    /\ impl = "clickhouse"
    /\ pc[t] = "lock"
    /\ op[t] \in clickhouse_inserts
    /\ lock[tbl[t]] = NoTask
    /\ accepted' = [accepted EXCEPT ![tbl[t]] = Append(@, nextRow)]
    /\ lock' = drop_guard(take_guard(lock, tbl[t], t), tbl[t])
    /\ LET pushed == Append(buffer[tbl[t]], nextRow) IN
       IF threshold_reached(pushed)
       THEN /\ buffer' = [buffer EXCEPT ![tbl[t]] = drain(pushed).rest]
            /\ batch' = [batch EXCEPT ![t] = drain(pushed).batch]
            /\ restored' = [restored EXCEPT ![tbl[t]] = FALSE]
            /\ pc' = [pc EXCEPT ![t] = "write"]
            /\ UNCHANGED <<ret, op, tbl, attempt>>
       ELSE /\ buffer' = [buffer EXCEPT ![tbl[t]] = pushed]
            /\ restored' = restored
            /\ Return(t, "ok")
    /\ nextRow' = nextRow + 1
    /\ protocol_name' = Append(protocol_name, protocol_name_of(ix[t]))
    /\ UNCHANGED <<impl, envVars, restVars, pipelineVars, store, flushCalls, queries>>

\* flush_all after a table is done: lock the next table, or Ok(()) after the last,
\* where the guards of the tables found empty go out of scope.  held is the lock
\* state at that point.
clickhouse_flush_all_next(t, held) ==
    IF IsLast("clickhouse", tbl[t])
    THEN /\ Return(t, "ok")
         /\ lock' = [tb \in DOMAIN held |-> IF held[tb] = t THEN NoTask ELSE held[tb]]
    ELSE /\ pc' = [pc EXCEPT ![t] = "lock"]
         /\ tbl' = [tbl EXCEPT ![t] = NextTable("clickhouse", tbl[t])]
         /\ batch' = [batch EXCEPT ![t] = <<>>]
         /\ attempt' = attempt
         /\ lock' = held
         /\ UNCHANGED <<ret, op>>

\* if !buffer.is_empty() { drain; drop(buffer); ... }: an empty buffer leaves the
\* guard alive in the function's scope.
clickhouse_flush_all_check(t) ==
    /\ impl = "clickhouse"
    /\ pc[t] = "lock"
    /\ op[t] = "flush_all"
    /\ lock[tbl[t]] = NoTask
    /\ IF buffer[tbl[t]] # <<>>
       THEN /\ batch' = [batch EXCEPT ![t] = drain(buffer[tbl[t]]).batch]
            /\ buffer' = [buffer EXCEPT ![tbl[t]] = drain(@).rest]
            /\ restored' = [restored EXCEPT ![tbl[t]] = FALSE]
            /\ lock' = drop_guard(take_guard(lock, tbl[t], t), tbl[t])
            /\ pc' = [pc EXCEPT ![t] = "write"]
            /\ UNCHANGED <<ret, op, tbl, attempt>>
       ELSE /\ clickhouse_flush_all_next(t, take_guard(lock, tbl[t], t))
            /\ UNCHANGED <<buffer, restored>>
    /\ UNCHANGED <<impl, envVars, bootVars, pipelineVars, store, nextRow, flushCalls, accepted, queries>>

\* client.insert(..).await?; insert.write(item).await? ...; insert.end().await?
\* all succeed: the batch is in the table.
clickhouse_write_ok(t) ==
    /\ impl = "clickhouse"
    /\ pc[t] = "write"
    /\ store' = [store EXCEPT ![tbl[t]] = Append(@, Block(t))]
    /\ IF op[t] = "flush_all"
       THEN clickhouse_flush_all_next(t, lock)
       ELSE /\ Return(t, "ok")
            /\ lock' = lock
    /\ UNCHANGED <<impl, envVars, bootVars, pipelineVars, restored, buffer, nextRow, flushCalls, accepted, queries>>

\* One of the awaits fails: `?` returns the error, batch and guards are dropped.
clickhouse_write_err(t) ==
    /\ impl = "clickhouse"
    /\ pc[t] = "write"
    /\ Return(t, "err")
    /\ lock' = DropGuards(t)
    /\ UNCHANGED <<impl, envVars, bootVars, pipelineVars, restored, buffer, store, nextRow, flushCalls, accepted, queries>>

NextClickhouse ==
    \E t \in Tasks :
       \/ clickhouse_call_insert(t)
       \/ clickhouse_call_flush_all(t)
       \/ clickhouse_insert_push(t)
       \/ clickhouse_flush_all_check(t)
       \/ clickhouse_write_ok(t)
       \/ clickhouse_write_err(t)

InitClickhouse == InitFor("clickhouse")

SpecClickhouse == InitClickhouse /\ [][NextClickhouse]_vars

\* ==================================================== storage.rs, scheduled
\* The runtime resumes a task whose await can complete: a store request ends
\* (well or badly), a sleep ends, a free mutex is handed over.
StorageStep(t) ==
    \/ storage_insert_push(t)
    \/ storage_flush_all_drain(t)
    \/ storage_try_insert_ok(t)
    \/ storage_try_insert_err(t)
    \/ storage_sleep(t)
    \/ storage_restore(t)
    \/ storage_flush_all_sync(t)

FairStorage == SpecStorage /\ \A t \in Tasks : WF_vars(StorageStep(t))

\* ============================================ storage.rs, a store that heals
\* The store stops failing while a table's buffer holds a batch that an insert
\* has given back: from here on every try_insert_* call answers Ok(()).
store_recovers ==
    /\ impl = "storage"
    /\ fault = "transient"
    /\ \E tb \in DOMAIN restored : restored[tb]
    /\ fault' = "none"
    /\ UNCHANGED <<impl, status, bootVars, pipelineVars, writerVars>>

NextRecovery == NextStorage \/ store_recovers

SpecRecovery == InitStorage /\ [][NextRecovery]_vars

\* ============================================================ both writers
Init == InitStorage \/ InitClickhouse

Next == NextStorage \/ NextClickhouse

Spec == Init /\ [][Next]_vars

\* ================================================= a store that never fails
NextReliable ==
    \E t \in Tasks :
       \/ storage_call_insert(t)
       \/ storage_call_flush_all(t)
       \/ storage_insert_push(t)
       \/ storage_flush_all_drain(t)
       \/ storage_try_insert_ok(t)
       \/ storage_flush_all_sync(t)
       \/ clickhouse_call_insert(t)
       \/ clickhouse_call_flush_all(t)
       \/ clickhouse_insert_push(t)
       \/ clickhouse_flush_all_check(t)
       \/ clickhouse_write_ok(t)

SpecReliable == Init /\ [][NextReliable]_vars

\* =============================================================== texts
\* char::escape_debug on one piece of a text: quotes and backslashes are escaped.
escape_debug(c) ==
    IF c = "\"" THEN <<"\\", "\"">>
    ELSE IF c = "\\" THEN <<"\\", "\\">>
    ELSE <<c>>

\* format!("{:?}", s) of a string (and of a Box<dyn Error> made from a string):
\* the escaped text between double quotes.
debug_str(s) ==
    LET RECURSIVE E(_)
        E(k) == IF k = 0 THEN <<>> ELSE E(k - 1) \o escape_debug(s[k])
    IN <<"\"">> \o E(Len(s)) \o <<"\"">>

\* Mutant of split_next: a text without the delimiter gives the empty text.
split_next_or_empty(text, delim) ==
    LET hits == {k \in 1..Len(text) : text[k] = delim}
    IN IF hits = {} THEN <<>>
       ELSE SubSeq(text, 1, (CHOOSE k \in hits : \A j \in hits : k <= j) - 1)

\* text.split(delim).next(): the text before the first delimiter, the whole
\* text when it holds none (next() is always Some).
split_next(text, delim) ==
    LET hits == {k \in 1..Len(text) : text[k] = delim}
    IN IF hits = {} THEN text
       ELSE SubSeq(text, 1, (CHOOSE k \in hits : \A j \in hits : k <= j) - 1)

\* str::trim: leading and trailing whitespace is removed.
trim(text) ==
    LET solid == {k \in 1..Len(text) : text[k] # " "}
    IN IF solid = {} THEN <<>>
       ELSE SubSeq(text, CHOOSE k \in solid : \A j \in solid : k <= j,
                         CHOOSE k \in solid : \A j \in solid : k >= j)

\* multi_parser.rs: parsed.split('{').next().unwrap_or(parsed).trim()
extract_instruction_type(text) == trim(split_next(text, "{"))

\* parser.rs: format!("{:?}", parsed).split('(').next().unwrap_or("Unknown")
parser_instruction_type(text) == split_next(text, "(")

\* ================================================= the rows the handlers build
\* Transaction { protocol_name, instruction_type, success, .. }
Transaction(name, instruction_type, success) ==
    [protocol_name |-> name, instruction_type |-> instruction_type, success |-> success]

\* FailedTransaction { protocol_name, error_message / error, .. }
FailedTransaction(name, text) == [protocol_name |-> name, error |-> text]

\* TransactionPayload { signature, parsed_data, raw_data, log_messages }
TransactionPayload(name) == [parsed_data |-> "Parsed"]

\* ProtocolEvent { protocol, event_type, .. }
ProtocolEvent(name, ty) == [protocol |-> name, event_type |-> ty]

\* str::contains: the pattern occurs in the text as a run of adjacent pieces.
contains(text, pat) ==
    \E k \in 1..(Len(text) - Len(pat) + 1) : SubSeq(text, k, k + Len(pat) - 1) = pat

\* The event type with the Swap test moved in front of the Buy/Sell test.
event_type_swap_first(parsed_data) ==
    IF contains(parsed_data, <<"Swap">>) THEN "swap"
    ELSE IF contains(parsed_data, <<"Buy">>) \/ contains(parsed_data, <<"Sell">>) THEN "trade"
    ELSE IF contains(parsed_data, <<"AddLiquidity">>) THEN "liquidity_add"
    ELSE IF contains(parsed_data, <<"RemoveLiquidity">>) THEN "liquidity_remove"
    ELSE "unknown"

\* extract_protocol_event's if / else if chain over parsed_data.contains(..).
event_type(parsed_data) ==
    IF contains(parsed_data, <<"Buy">>) \/ contains(parsed_data, <<"Sell">>) THEN "trade"
    ELSE IF contains(parsed_data, <<"Swap">>) THEN "swap"
    ELSE IF contains(parsed_data, <<"AddLiquidity">>) THEN "liquidity_add"
    ELSE IF contains(parsed_data, <<"RemoveLiquidity">>) THEN "liquidity_remove"
    ELSE "unknown"

\* extract_protocol_event with None for every payload that is not a trade.
extract_protocol_event_trades(protocol, parsed_data) ==
    IF event_type(parsed_data) = "trade"
    THEN <<ProtocolEvent(protocol, event_type(parsed_data))>>
    ELSE <<>>

\* extract_protocol_event: always Some(ProtocolEvent { .. }), written <<event>>
\* (None is <<>>). protocol.to_lowercase() leaves the registered names, which
\* are lower case, as they are.
extract_protocol_event(protocol, parsed_data) ==
    <<ProtocolEvent(protocol, event_type(parsed_data))>>

\* Mutant of fetch_add: the increment is lost.
fetch_add_lost(v) == v

\* AtomicU64::fetch_add(1, Ordering::Relaxed): one indivisible read-modify-write.
fetch_add(v) == v + 1

\* self.parsers.contains_key(program_id) / parser_map.get(program_id_bytes)
has_parser(a) == a \in DOMAIN parser_map

\* for account_idx in &ix.accounts { if idx >= all_accounts.len() { continue; }
\*     resolved_accounts.push(all_accounts[idx]) }
resolve_accounts(accounts) ==
    LET RECURSIVE R(_)
        R(k) == IF k = 0 THEN <<>>
                ELSE IF accounts[k] >= Len(all_accounts) THEN R(k - 1)
                ELSE Append(R(k - 1), all_accounts[accounts[k] + 1])
    IN R(Len(accounts))

\* Mutant of next_instruction: an instruction of an unregistered program is decoded.
next_instruction_unfiltered(t, program_idx, accounts) ==
    IF program_idx >= Len(all_accounts)
    THEN UNCHANGED <<wpc, ix>>
    ELSE /\ ix' = [ix EXCEPT ![t] = [program |-> all_accounts[program_idx + 1],
                                     accounts |-> accounts,
                                     resolved |-> resolve_accounts(accounts),
                                     error |-> <<>>]]
         /\ wpc' = [wpc EXCEPT ![t] = "parse"]

\* One pass of `for ix in instructions` up to the decoder call: the instruction is
\* skipped (continue) when its program index is out of range or its program has
\* no parser; otherwise its accounts are resolved and the decoder is awaited.
next_instruction(t, program_idx, accounts) ==
    IF program_idx >= Len(all_accounts)
    THEN UNCHANGED <<wpc, ix>>
    ELSE IF ~has_parser(all_accounts[program_idx + 1])
    THEN UNCHANGED <<wpc, ix>>
    ELSE /\ ix' = [ix EXCEPT ![t] = [program |-> all_accounts[program_idx + 1],
                                     accounts |-> accounts,
                                     resolved |-> resolve_accounts(accounts),
                                     error |-> <<>>]]
         /\ wpc' = [wpc EXCEPT ![t] = "parse"]

\* The handler's locals once the decoder has answered: the InstructionUpdate has
\* been consumed, the program and the decoder's error (if any) are still used.
decoded_ix(i, e) == [program |-> i.program, accounts |-> <<>>, resolved |-> <<>>, error |-> e]

\* if let Some((success, failed)) = metrics.get(name) { <one of them>.fetch_add(1) }
metrics_add(m, name, which) ==
    IF name \notin DOMAIN m THEN m
    ELSE IF which = "success" THEN [m EXCEPT ![name].success = fetch_add(@)]
    ELSE [m EXCEPT ![name].failed = fetch_add(@)]

\* Mutant of submit: the row is handed to the writer twice.
submit_twice(sub, tb, row) == [sub EXCEPT ![tb] = Append(Append(@, row), row)]

\* storage.insert_*(row) is called: the row is handed to the writer.
submit(sub, tb, row) == [sub EXCEPT ![tb] = Append(@, row)]

\* Mutant of awaited: the insert is spawned and the loop goes on at once.
awaited_spawned(p) == "loop"

\* storage.insert_*(row).await: the handler stays at the call until the writer
\* has answered.
awaited(p) == p

\* ============================================ helpers.rs process_transaction
\* format!("{:?}", tx.transaction_status_meta.status).starts_with("Err"): the
\* Debug text of a Result begins with the name of its variant.
starts_with_Err(st) == st = "Err"

\* process_transaction(tx, ..) is called; a transaction that failed on chain
\* returns Ok(()) at once.
helpers_call(t) ==
    /\ impl = "storage"
    /\ wpc[t] = "idle"
    /\ txs < MaxTx
    /\ txs' = txs + 1
    /\ wpc' = [wpc EXCEPT ![t] = IF starts_with_Err(status) THEN "idle" ELSE "loop"]
    /\ UNCHANGED <<impl, envVars, bootVars, writerVars, ix, metrics, counter, decoded, submitted,
                   mainPc, taken>>

\* The loop takes the next instruction, or the instructions are over: Ok(()).
helpers_loop(t) ==
    /\ impl = "storage"
    /\ wpc[t] = "loop"
    /\ \/ /\ wpc' = [wpc EXCEPT ![t] = "idle"]
          /\ UNCHANGED <<ix, taken>>
       \/ /\ taken < MaxIx
          /\ taken' = taken + 1
          /\ \E program_idx \in ProgramIdx, accounts \in IxAccounts :
                next_instruction(t, program_idx, accounts)
    /\ UNCHANGED <<impl, envVars, bootVars, writerVars, metrics, counter, decoded, submitted,
                   mainPc, txs>>

\* try_parse(..).await is over. Ok: success.fetch_add(1), a Transaction row goes
\* to insert_transaction. Err(e): failed.fetch_add(1), a FailedTransaction row
\* with error_message format!("{:?}", e) goes to insert_failed.
process_instruction(t) ==
    /\ impl = "storage"
    /\ wpc[t] = "parse"
    /\ LET name == parser_map[ix[t].program] IN
       \/ /\ metrics' = metrics_add(metrics, name, "success")
          /\ decoded' = [decoded EXCEPT ![name].ok = @ + 1]
          /\ submitted' = submit(submitted, "transactions",
                                 Transaction(name, extract_instruction_type(parsed), 1))
          /\ ix' = [ix EXCEPT ![t] = decoded_ix(ix[t], <<>>)]
       \/ \E e \in DecodeErrors :
             /\ metrics' = metrics_add(metrics, name, "failed")
             /\ decoded' = [decoded EXCEPT ![name].err = @ + 1]
             /\ submitted' = submit(submitted, "failed_transactions",
                                    FailedTransaction(name, debug_str(e)))
             /\ ix' = [ix EXCEPT ![t] = decoded_ix(ix[t], e)]
    /\ wpc' = [wpc EXCEPT ![t] = awaited("insert")]
    /\ UNCHANGED <<impl, envVars, bootVars, counter, mainPc, txs, taken>>

\* The handler's step when the writer is left out: the row is handed over.
helpers_parsed(t) == process_instruction(t) /\ UNCHANGED writerVars

\* storage.insert_*(..).await is over (an Err is only logged): next instruction.
helpers_inserted(t) ==
    /\ impl = "storage"
    /\ wpc[t] = "insert"
    /\ wpc' = [wpc EXCEPT ![t] = "loop"]
    /\ ix' = [ix EXCEPT ![t] = NoIx]
    /\ UNCHANGED <<impl, envVars, bootVars, writerVars, metrics, counter, decoded, submitted,
                   mainPc, txs, taken>>

\* ============================================ the statements of the schema
\* The server's answer to a statement: refused or not.
refuses(srv, stmt) ==
    \/ srv = "down"
    \/ srv = "no_ddl" /\ stmt # "SELECT 1"

\* drop_all_tables: one DROP TABLE IF EXISTS per table.
drop_all_tables(i) == [k \in 1..Len(TableOrder(i)) |-> "DROP"]

\* create_tables: clickhouse.rs sends four CREATE TABLE; storage.rs sends CREATE,
\* three ALTER TABLE .. ADD INDEX and a second CREATE.
create_tables(i) ==
    IF i = "storage" THEN <<"CREATE", "ALTER", "ALTER", "ALTER", "CREATE">>
    ELSE [k \in 1..Len(TableOrder(i)) |-> "CREATE"]

\* storage.rs opens both constructors with health_check (SELECT 1);
\* clickhouse.rs has no health check.
health_check(i) == IF i = "storage" THEN <<"SELECT 1">> ELSE <<>>

\* ClickHouseStorage::new (clear FALSE) and new_with_clear (clear TRUE): the
\* statements the constructor sends when none is refused.
constructor(i, clear) ==
    health_check(i) \o (IF clear THEN drop_all_tables(i) ELSE <<>>) \o create_tables(i)

\* storage.rs create_tables ends its ALTER statements with .ok(): a refusal is
\* dropped. Every other statement ends with `?`.
ignored(i, stmt) == i = "storage" /\ stmt = "ALTER"

\* clear_all_data: TRUNCATE TABLE IF EXISTS for each of the four tables, up to
\* and including the first one refused (`.await?` returns at the first Err).
clear_all_data(srv) ==
    IF refuses(srv, "TRUNCATE") THEN <<"TRUNCATE">>
    ELSE [k \in 1..Len(clickhouse_tables) |-> "TRUNCATE"]

\* main.rs: std::env::var("CLEAR_DB_ON_START").ok().map(|s| s == "true")
\* .unwrap_or(true)
clear_database_on_start(env) == IF env = "unset" THEN TRUE ELSE env = "true"

\* config.rs Config::load: clear_on_start from config.toml (Default: false),
\* overridden by CLEAR_DB_ON_START when it is set (val == "true").
clear_on_start(file, env) == IF env # "unset" THEN env = "true" ELSE file = "true"

\* The main() that drives storage.rs: new_with_clear when
\* config.clickhouse.clear_on_start holds, new otherwise.
storage_main_clear(config) == config

\* main() reads its configuration and calls the constructor it selects.
main_start ==
    /\ mainPc = "start"
    /\ LET clear == IF impl = "storage"
                    THEN storage_main_clear(clear_on_start(config_file, clear_env))
                    ELSE clear_database_on_start(clear_env)
       IN /\ mainPc' = IF clear THEN "new_with_clear" ELSE "new"
          /\ todo' = constructor(impl, clear)
    /\ UNCHANGED <<impl, envVars, registryVars, pureVars, flushed, protocol_name, writerVars,
                   clear_env, config_file, server, statements, built,
                   wpc, ix, metrics, counter, decoded, submitted, txs, taken>>

\* The running constructor sends its next statement and awaits the answer; a
\* refusal that is not ignored ends the constructor and main() with Err.
constructor_send ==
    /\ mainPc \in {"new", "new_with_clear"}
    /\ todo # <<>>
    /\ statements' = Append(statements, Head(todo))
    /\ IF refuses(server, Head(todo)) /\ ~ignored(impl, Head(todo))
       THEN /\ mainPc' = "exit_err"
            /\ todo' = <<>>
       ELSE /\ mainPc' = mainPc
            /\ todo' = Tail(todo)
    /\ UNCHANGED <<impl, envVars, registryVars, pureVars, flushed, protocol_name, writerVars,
                   clear_env, config_file, server, built,
                   wpc, ix, metrics, counter, decoded, submitted, txs, taken>>

\* The constructor returns Ok(storage). main.rs drops the value new_with_clear
\* returned and goes on to MultiParser::new, which calls ClickHouseStorage::new.
constructor_return ==
    /\ mainPc \in {"new", "new_with_clear"}
    /\ todo = <<>>
    /\ built' = built + 1
    /\ IF impl = "clickhouse" /\ mainPc = "new_with_clear"
       THEN /\ mainPc' = "new"
            /\ todo' = constructor(impl, FALSE)
       ELSE /\ mainPc' = "firehose"
            /\ todo' = todo
    /\ UNCHANGED <<impl, envVars, registryVars, pureVars, flushed, protocol_name, writerVars,
                   clear_env, config_file, server, statements,
                   wpc, ix, metrics, counter, decoded, submitted, txs, taken>>

\* ================================= main.rs transaction_handler and parser.rs
\* firehose hands a transaction to transaction_handler on one of its threads;
\* the handler does not read tx.transaction_status_meta.status.
main_handler_call(t) ==
    /\ impl = "clickhouse"
    /\ mainPc = "firehose"
    /\ wpc[t] = "idle"
    /\ txs < MaxTx
    /\ txs' = txs + 1
    /\ wpc' = [wpc EXCEPT ![t] = "loop"]
    /\ UNCHANGED <<impl, envVars, bootVars, writerVars, ix, metrics, counter, decoded, submitted,
                   mainPc, taken>>

\* The loop takes the next instruction, or the instructions are over: Ok(()).
main_handler_loop(t) ==
    /\ impl = "clickhouse"
    /\ wpc[t] = "loop"
    /\ \/ /\ wpc' = [wpc EXCEPT ![t] = "idle"]
          /\ UNCHANGED <<ix, taken>>
       \/ /\ taken < MaxIx
          /\ taken' = taken + 1
          /\ \E program_idx \in ProgramIdx, accounts \in IxAccounts :
                next_instruction(t, program_idx, accounts)
    /\ UNCHANGED <<impl, envVars, bootVars, writerVars, metrics, counter, decoded, submitted,
                   mainPc, txs>>

\* parse_and_store: self.parse(instruction).await is over. Ok: a Transaction row
\* with success 1; Err(e): a Transaction row with success 0 and instruction_type
\* "ParseFailed". Either goes to insert_transaction.
parser_parsed(t) ==
    /\ impl = "clickhouse"
    /\ wpc[t] = "parse"
    /\ LET name == parser_map[ix[t].program] IN
       \/ /\ submitted' = submit(submitted, "transactions",
                                 Transaction(name, parser_instruction_type(parsed), 1))
          /\ decoded' = [decoded EXCEPT ![name].ok = @ + 1]
          /\ ix' = [ix EXCEPT ![t] = decoded_ix(ix[t], <<>>)]
       \/ \E e \in DecodeErrors :
             /\ submitted' = submit(submitted, "transactions",
                                    Transaction(name, <<"ParseFailed">>, 0))
             /\ decoded' = [decoded EXCEPT ![name].err = @ + 1]
             /\ ix' = [ix EXCEPT ![t] = decoded_ix(ix[t], e)]
    /\ wpc' = [wpc EXCEPT ![t] = awaited("insert_transaction")]
    /\ UNCHANGED <<impl, envVars, bootVars, writerVars, metrics, counter, mainPc, txs, taken>>

\* An insert of parse_and_store is over (an Err is only logged): the next row of
\* the branch is submitted, or parse_and_store returns and parse_instruction
\* runs entry.counter.fetch_add(1).
parser_stored(t) ==
    /\ impl = "clickhouse"
    /\ LET name == parser_map[ix[t].program] IN
       CASE wpc[t] = "insert_transaction" /\ ix[t].error = <<>> ->
              /\ submitted' = submit(submitted, "transaction_payloads", TransactionPayload(name))
              /\ wpc' = [wpc EXCEPT ![t] = awaited("insert_payload")]
              /\ UNCHANGED <<ix, counter>>
         [] wpc[t] = "insert_transaction" /\ ix[t].error # <<>> ->
              /\ submitted' = submit(submitted, "failed_transactions",
                                     FailedTransaction(name, ix[t].error))
              /\ wpc' = [wpc EXCEPT ![t] = awaited("insert_failed_transaction")]
              /\ UNCHANGED <<ix, counter>>
         [] wpc[t] = "insert_payload" ->
              /\ LET event == extract_protocol_event(name, parsed) IN
                    submitted' = IF event = <<>> THEN submitted
                                 ELSE submit(submitted, "protocol_events", event[1])
              /\ wpc' = [wpc EXCEPT ![t] = awaited("insert_protocol_event")]
              /\ UNCHANGED <<ix, counter>>
         [] wpc[t] \in {"insert_protocol_event", "insert_failed_transaction"} ->
              /\ counter' = [counter EXCEPT ![name] = fetch_add(@)]
              /\ wpc' = [wpc EXCEPT ![t] = "loop"]
              /\ ix' = [ix EXCEPT ![t] = NoIx]
              /\ UNCHANGED submitted
         [] OTHER -> FALSE
    /\ UNCHANGED <<impl, envVars, bootVars, writerVars, metrics, decoded, mainPc, txs, taken>>

\* firehose(..).await returns Ok: print_summary, then flush_all is called.
main_firehose_ok ==
    /\ impl = "clickhouse"
    /\ mainPc = "firehose"
    /\ \A t \in Tasks : wpc[t] = "idle"
    /\ mainPc' = "flush_all"
    /\ flushCalls' = flushCalls + 1
    /\ UNCHANGED <<impl, envVars, bootVars, buffer, lock, store, pc, op, tbl, batch, attempt, ret,
                   nextRow, accepted, restored, queries,
                   wpc, ix, metrics, counter, decoded, submitted, txs, taken>>

\* firehose(..).await returns Err((error, slot)): return Err(..) from main.
main_firehose_err ==
    /\ impl = "clickhouse"
    /\ mainPc = "firehose"
    /\ \A t \in Tasks : wpc[t] = "idle"
    /\ mainPc' = "exit_err"
    /\ UNCHANGED <<impl, envVars, bootVars, writerVars,
                   wpc, ix, metrics, counter, decoded, submitted, txs, taken>>

\* flush_all().await is over and has answered Ok or Err (an Err is only logged);
\* clear_data_after decides between clear_data(), which flushes once more, and
\* Ok(()).
main_flushed ==
    /\ impl = "clickhouse"
    /\ mainPc = "flush_all"
    /\ flushed' \in {"Ok", "Err"}
    /\ \E clear_data_after \in BOOLEAN :
          IF clear_data_after
          THEN /\ mainPc' = "clear_data"
               /\ flushCalls' = flushCalls + 1
          ELSE /\ mainPc' = "exit_ok"
               /\ flushCalls' = flushCalls
    /\ UNCHANGED <<impl, envVars, registryVars, startupVars, pureVars, protocol_name,
                   buffer, lock, store, pc, op, tbl, batch, attempt, ret,
                   nextRow, accepted, restored, queries,
                   wpc, ix, metrics, counter, decoded, submitted, txs, taken>>

\* clear_data().await is over (an Err is only logged): Ok(()). Its flush_all has
\* failed, or clear_all_data has sent TRUNCATE TABLE for the four tables, up to
\* the first one the server refuses.
main_cleared ==
    /\ impl = "clickhouse"
    /\ mainPc = "clear_data"
    /\ mainPc' = "exit_ok"
    /\ \/ statements' = statements
       \/ statements' = statements \o clear_all_data(server)
    /\ UNCHANGED <<impl, envVars, registryVars, pureVars, flushed, protocol_name, writerVars,
                   clear_env, config_file, server, todo, built,
                   wpc, ix, metrics, counter, decoded, submitted, txs, taken>>

\* ================================ helpers.rs on storage.rs, a reliable store
\* process_transaction hands each row to the writer's insert and awaits it; the
\* caller awaits every handler before it calls flush_all, and starts none after.
rows_call(t) == flushCalls = 0 /\ helpers_call(t)

\* storage.insert_transaction(tx_record) / storage.insert_failed(failed_tx) is
\* entered with the row the handler has just built.
rows_parsed(t) ==
    /\ pc[t] = "idle"
    /\ process_instruction(t)
    /\ insert_entered(t, IF ix'[t].error = <<>> THEN "insert_transaction" ELSE "insert_failed")

\* .await of the insert: the handler goes on when the insert has returned.
rows_inserted(t) == pc[t] = "idle" /\ helpers_inserted(t)

\* flush_all at shutdown, when every handler has returned.
rows_flush_all(t) ==
    /\ \A u \in Tasks : wpc[u] = "idle" /\ pc[u] = "idle"
    /\ storage_call_flush_all(t)

NextRows ==
    \E t \in Tasks :
       \/ rows_call(t)
       \/ helpers_loop(t)
       \/ rows_parsed(t)
       \/ storage_insert_push(t)
       \/ storage_try_insert_ok(t)
       \/ rows_inserted(t)
       \/ rows_flush_all(t)
       \/ storage_flush_all_drain(t)
       \/ storage_flush_all_sync(t)

SpecRows == InitStorage /\ [][NextRows]_vars

NextPipeline ==
    \/ \E t \in Tasks :
          \/ helpers_call(t)
          \/ helpers_loop(t)
          \/ helpers_parsed(t)
          \/ helpers_inserted(t)
          \/ main_handler_call(t)
          \/ main_handler_loop(t)
          \/ parser_parsed(t)
          \/ parser_stored(t)
    \/ main_firehose_ok
    \/ main_firehose_err
    \/ main_flushed
    \/ main_cleared

SpecPipeline == Init /\ [][NextPipeline]_vars

\* ============================== storage.rs with a store failing for any cause
InitFaults ==
    /\ InitWriter("storage")
    /\ InitBoot
    /\ fault \in ErrorKinds
    /\ status = "Ok"
    /\ InitPipeline

SpecFaults == InitFaults /\ [][NextStorage]_vars

\* ================== the handlers fed transactions of either on-chain status
InitStatus ==
    /\ \E i \in {"storage", "clickhouse"} : InitWriter(i)
    /\ InitBoot
    /\ fault = "transient"
    /\ status \in {"Ok", "Err"}
    /\ InitPipeline

SpecStatus == InitStatus /\ [][NextPipeline]_vars

\* ================================= one handler, any text a decoder prints
\* format!("{:?}", inst) of a value of an enum with derived Debug: the
\* variant's name, alone, followed by its fields between parentheses, or
\* followed by its named fields between braces.
DecoderTexts ==
    LET VariantNames == {"Swap", "Buy"}
        VariantFields == {<<"1">>, <<"Args", " ", "{", " ", "}">>, <<"(", "1", ")">>}
    IN {<<v>> : v \in VariantNames}
       \cup {<<v, "(">> \o f \o <<")">> : v \in VariantNames, f \in VariantFields}
       \cup {<<v, " ", "{", " ">> \o f \o <<" ", "}">> :
                v \in VariantNames, f \in VariantFields}

InitLabels ==
    /\ \E i \in {"storage", "clickhouse"} : InitWriter(i)
    /\ fault = "transient"
    /\ status = "Ok"
    /\ InitPipeline
    /\ InitRegistry
    /\ InitServer
    /\ block_time = 0
    /\ dims = <<>>
    /\ parsed \in DecoderTexts

\* The transactions are handled by one thread of the firehose.
NextLabels ==
    \/ helpers_call(1)
    \/ helpers_loop(1)
    \/ helpers_parsed(1)
    \/ helpers_inserted(1)
    \/ main_handler_call(1)
    \/ main_handler_loop(1)
    \/ parser_parsed(1)
    \/ parser_stored(1)

SpecLabels == InitLabels /\ [][NextLabels]_vars

\* ======================================================== the event markers
\* format!("{:?}", parsed) of decoded instructions whose variant and field
\* values spell none, one or two of the words extract_protocol_event looks for,
\* in either order.
MarkerTexts ==
    LET Markers == {"Buy", "Sell", "Swap", "AddLiquidity", "RemoveLiquidity"}
        Fields == {<<>>} \cup {<<m, " ">> : m \in Markers}
                     \cup {<<p[1], " ", p[2], " ">> :
                              p \in {q \in Markers \X Markers : q[1] # q[2]}}
    IN {<<"Route", " ", "{", " ">> \o f \o <<"}">> : f \in Fields}

InitEvents ==
    /\ \E i \in {"storage", "clickhouse"} : InitWriter(i)
    /\ fault = "transient"
    /\ status = "Ok"
    /\ InitPipeline
    /\ InitRegistry
    /\ InitServer
    /\ block_time = 0
    /\ dims = <<>>
    /\ parsed \in MarkerTexts

SpecEvents == InitEvents /\ [][NextLabels]_vars

\* ======================================================= time dimensions
MaxDay == 20088

\* const GENESIS_TIMESTAMP: u64 = 1600646400
GENESIS_TIMESTAMP == 1600646400

\* The timestamps handed to the computation: every day from 1970-01-01 to
\* 2024-12-31 (MaxDay), at its first and last second and around its first hour.
Times == {d * 86400 + sec : d \in 0..MaxDay, sec \in {0, 3599, 3600, 86399}}

\* Mutant of is_leap_year: no year is a leap year.
is_leap_year_never(year) == FALSE

\* (year % 4 == 0 && year % 100 != 0) || (year % 400 == 0)
is_leap_year(year) == (year % 4 = 0 /\ year % 100 # 0) \/ (year % 400 = 0)

\* Mutant of month_days: February has 28 days in every year.
month_days_common(year) == <<31, 28, 31, 30, 31, 30, 31, 31, 30, 31, 30, 31>>

\* let month_days = if is_leap_year(year) { [31, 29, ..] } else { [31, 28, ..] }
month_days(year) ==
    IF is_leap_year(year) THEN <<31, 29, 31, 30, 31, 30, 31, 31, 30, 31, 30, 31>>
    ELSE <<31, 28, 31, 30, 31, 30, 31, 31, 30, 31, 30, 31>>

\* format!("{:0w$}", n): the decimal digits of n, zero-padded on the left to at
\* least w characters.
zero_pad(n, w) ==
    LET digit == <<"0", "1", "2", "3", "4", "5", "6", "7", "8", "9">>
        RECURSIVE digits(_)
        digits(v) == IF v < 10 THEN <<digit[v + 1]>>
                     ELSE digits(v \div 10) \o <<digit[(v % 10) + 1]>>
        RECURSIVE pad(_)
        pad(d) == IF Len(d) >= w THEN d ELSE pad(<<"0">> \o d)
    IN pad(digits(n))

\* format!("{:04}-{:02}-{:02}", year, month, day)
format_date(year, month, day) ==
    zero_pad(year, 4) \o <<"-">> \o zero_pad(month, 2) \o <<"-">> \o zero_pad(day, 2)

\* types.rs compute_time_dimensions: (date, hour, day_of_week). The year loop
\* takes whole years off the day count, the month loop whole months.
compute_time_dimensions(t) ==
    IF t = 0 THEN [date |-> format_date(1970, 1, 1), hour |-> 0, day_of_week |-> 0]
    ELSE
    LET hour == (t % 86400) \div 3600
        days == t \div 86400
        RECURSIVE years(_, _)
        years(year, remaining_days) ==
            LET days_in_year == IF is_leap_year(year) THEN 366 ELSE 365
            IN IF remaining_days >= days_in_year
               THEN years(year + 1, remaining_days - days_in_year)
               ELSE <<year, remaining_days>>
        y == years(1970, days)
        RECURSIVE months(_, _)
        months(month, day) ==
            IF month <= 12 /\ day > month_days(y[1])[month]
            THEN months(month + 1, day - month_days(y[1])[month])
            ELSE <<month, day>>
        m == months(1, y[2] + 1)
    IN [date |-> format_date(y[1], m[1], m[2]),
        hour |-> hour % 256,
        day_of_week |-> ((days + 4) % 7) % 256]

\* chrono: DateTime::<Utc>::from_timestamp(secs, 0).format("%Y-%m-%d"): the
\* proleptic Gregorian date of the day secs falls on.
chrono_date(secs) ==
    LET z == (secs \div 86400) + 719468
        era == z \div 146097
        doe == z - era * 146097
        yoe == (doe - doe \div 1460 + doe \div 36524 - doe \div 146096) \div 365
        doy == doe - (365 * yoe + yoe \div 4 - yoe \div 100)
        mp == (5 * doy + 2) \div 153
        d == doy - (153 * mp + 2) \div 5 + 1
        m == IF mp < 10 THEN mp + 3 ELSE mp - 9
        y == yoe + era * 400 + (IF m <= 2 THEN 1 ELSE 0)
    IN format_date(y, m, d)

\* helpers.rs process_transaction: date from chrono, hour = ((block_time %
\* 86400) / 3600) as u8. parser.rs calls compute_time_dimensions(block_time).
time_dimensions ==
    /\ dims = <<>>
    /\ dims' = IF impl = "storage"
               THEN [date |-> chrono_date(block_time),
                     hour |-> ((block_time % 86400) \div 3600) % 256]
               ELSE compute_time_dimensions(block_time)
    /\ UNCHANGED <<impl, envVars, writerVars, pipelineVars, protocol_name, registryVars, startupVars,
                   flushed, block_time, parsed>>

InitCalendar ==
    /\ \E i \in {"storage", "clickhouse"} : InitWriter(i)
    /\ fault = "transient"
    /\ status = "Ok"
    /\ InitPipeline
    /\ InitRegistry
    /\ InitServer
    /\ block_time \in Times
    /\ dims = <<>>
    /\ parsed = <<"Swap", " ", "{", " ", "amount", " ", "}">>

SpecCalendar == InitCalendar /\ [][time_dimensions]_vars

\* ================================================= main() from its first line
InitStartup ==
    /\ \E i \in {"storage", "clickhouse"} : InitWriter(i)
    /\ fault = "transient"
    /\ status = "Ok"
    /\ InitHandlers
    /\ mainPc = "start"
    /\ InitRegistry
    /\ InitPure
    /\ clear_env \in {"unset", "true", "false"}
    /\ config_file \in {"absent", "true", "false"}
    /\ server \in {"up", "down", "no_ddl"}
    /\ statements = <<>>
    /\ todo = <<>>
    /\ built = 0
    /\ flushed = "none"

NextStartup ==
    \/ main_start
    \/ constructor_send
    \/ constructor_return
    \/ main_firehose_ok
    \/ main_firehose_err
    \/ main_flushed
    \/ main_cleared

SpecStartup == InitStartup /\ [][NextStartup]_vars

\* =================================================== parser.rs MultiParser
MaxReg == 3

\* The program ids add_parser is called with.
RegIds == {"JUP6", "6EF8", "pAMM"}

\* ParserEntry { name, parser: Arc::new(parser), counter: AtomicU64::new(0) }
ParserEntry(name, parser) == [name |-> name, parser |-> parser, counter |-> 0]

\* Mutant of hash_insert: the map is rebuilt around the new entry.
hash_insert_alone(m, k, v) == [a \in {k} |-> v]

\* HashMap::insert(k, v): the key maps to v, whether it was present or not.
hash_insert(m, k, v) == [a \in DOMAIN m \cup {k} |-> IF a = k THEN v ELSE m[a]]

\* HashMap::contains_key
contains_key(m, k) == k \in DOMAIN m

\* HashMap::get: Some(entry) or None.
hash_get(m, k) == IF k \in DOMAIN m THEN <<m[k]>> ELSE <<>>

\* MultiParser::list_parsers: one (name, address) pair per entry of the map
\* (the Vec's order is the map's iteration order, which is unspecified).
list_parsers(m) == {<<m[a].name, a>> : a \in DOMAIN m}

\* MultiParser::parser_count
parser_count(m) == Cardinality(DOMAIN m)

\* multi_parser.add_parser(program_id, name, parser): the entry is inserted and
\* the builder is returned; there is no error to return.
add_parser ==
    /\ impl = "clickhouse"
    /\ Len(registered) < MaxReg
    /\ \E program_id \in RegIds, name \in {"Jupiter Swaps", "Pumpfun"},
          parser \in {"JupiterSwapIxParser", "PumpfunIxParser"} :
          /\ parsers' = hash_insert(parsers, program_id, ParserEntry(name, parser))
          /\ registered' = Append(registered, [id |-> program_id,
                                                entry |-> ParserEntry(name, parser)])
    /\ UNCHANGED <<impl, envVars, writerVars, pipelineVars, startupVars, pureVars, flushed, protocol_name>>

NextRegistry == add_parser

SpecRegistry == InitClickhouse /\ [][NextRegistry]_vars

\* ================================================================ claims
\* A task owns a drained batch while it persists, backs off or re-adds it.
InFlightPcs == {"try", "sleep", "relock", "write"}

InFlight(t) == pc[t] \in InFlightPcs

Flat(blocks) ==
    LET RECURSIVE F(_)
        F(k) == IF k = 0 THEN <<>> ELSE F(k - 1) \o blocks[k]
    IN F(Len(blocks))

Persisted(tb) == Flat(store[tb])

InBatches(tb, r) == Cardinality({t \in Tasks : InFlight(t) /\ tbl[t] = tb /\ r \in RowsOf(batch[t])})

\* C1: every row an insert has appended is, in every reachable state, in the
\* live buffer, in a batch being persisted or retried, or persisted in the store.
C1_NoSilentDrop ==
    \A tb \in DOMAIN buffer : \A r \in RowsOf(accepted[tb]) :
        \/ r \in RowsOf(buffer[tb])
        \/ InBatches(tb, r) > 0
        \/ r \in RowsOf(Persisted(tb))

\* C2: when the flush an insert triggered has failed on all max_retries
\* attempts, the batch it re-adds is the batch it drained, unchanged through the
\* retries, and afterwards the buffer holds each of its rows exactly once next to
\* the rows the buffer held already (those other tasks put there meanwhile).
C2_AbandonRestoresBatch ==
    [][\A t \in Tasks :
          /\ (InFlight(t) /\ InFlight(t)') => batch'[t] = batch[t]
          /\ (pc[t] = "relock" /\ pc'[t] = "idle") =>
                /\ attempt[t] = max_retries
                /\ Len(batch[t]) >= batch_size
                /\ Len(buffer'[tbl[t]]) = Len(buffer[tbl[t]]) + Len(batch[t])
                /\ \A r \in RowsOf(batch[t]) :
                      /\ Occurrences(batch[t], r) = 1
                      /\ Occurrences(buffer'[tbl[t]], r) = 1
                      /\ r \notin RowsOf(Persisted(tbl[t]))
                /\ \A r \in Rows \ RowsOf(batch[t]) :
                      Occurrences(buffer'[tbl[t]], r) = Occurrences(buffer[tbl[t]], r)
      ]_vars

\* C2 witness: an abandoned batch is back in a buffer that also holds a row
\* pushed during the retries, and nothing of it was persisted.
C2_Witness ==
    \E tb \in DOMAIN buffer :
        /\ restored[tb]
        /\ lock[tb] = NoTask
        /\ Len(buffer[tb]) > batch_size
        /\ store[tb] = <<>>

\* C3: when flush_all has drained a non-empty buffer and its store write has
\* failed for good, the drained rows are back in that table's buffer when
\* flush_all returns its error.
C3_FlushAllRestores ==
    [][\A t \in Tasks :
          (op[t] = "flush_all" /\ InFlight(t) /\ pc'[t] = "idle" /\ ret' = "err")
             => \A r \in RowsOf(batch[t]) : r \in RowsOf(buffer'[tbl[t]])
      ]_vars

\* C4: the insert call whose threshold flush failed on all max_retries attempts
\* returns an error to its caller.
C4_ExhaustionSurfaced ==
    [][\A t \in Tasks :
          (pc[t] = "relock" /\ attempt[t] = max_retries /\ pc'[t] = "idle")
             => ret' = "err"
      ]_vars

\* C5: a flush whose store write fails k < max_retries times and then succeeds
\* returns success, and then every row of the batch is persisted exactly once and
\* is neither in the buffer nor in another batch; a failure with attempts left
\* keeps the same batch for the next attempt; and every flush comes to an end
\* (the calls being finitely many, from some point on no task is inside a flush).
C5_RetrySucceeds ==
    /\ [][\A t \in Tasks :
            /\ (pc[t] = "try" /\ store' # store /\ pc'[t] # "try") =>
                  /\ attempt[t] - 1 < max_retries
                  /\ IF op[t] = "flush_all"
                     THEN pc'[t] \in {"lock", "sync"}
                     ELSE pc'[t] = "idle" /\ ret' = "ok"
                  /\ \A r \in RowsOf(batch[t]) :
                        /\ Occurrences(Flat(store'[tbl[t]]), r) = 1
                        /\ r \notin RowsOf(buffer'[tbl[t]])
                        /\ \A u \in Tasks : InFlight(u)' => r \notin RowsOf(batch'[u])
            /\ (pc[t] = "try" /\ pc'[t] # "try" /\ store' = store
                  /\ attempt[t] < max_retries) =>
                  /\ pc'[t] = "sleep"
                  /\ batch'[t] = batch[t]
            /\ (pc[t] = "sleep" /\ pc'[t] # "sleep") =>
                  /\ pc'[t] = "try"
                  /\ attempt'[t] = attempt[t] + 1
                  /\ batch'[t] = batch[t]
       ]_vars
    /\ <>[](\A t \in Tasks : pc[t] \notin {"try", "sleep"})

\* C5 witness: the first batch of a table was persisted on the last attempt
\* max_retries allows, and the insert that flushed it has returned Ok.
C5_Witness ==
    \E t \in Tasks, tb \in DOMAIN store :
        /\ \A u \in Tasks : pc[u] = "idle"
        /\ attempt[t] = max_retries
        /\ ret = "ok"
        /\ flushCalls = 0
        /\ nextRow = batch_size + 1
        /\ Len(store[tb]) = 1
        /\ store[tb][1] = accepted[tb]
        /\ buffer[tb] = <<>>

\* Times row r occurs in the batches tasks own for table tb.
BatchOccurrences(tb, r) ==
    LET RECURSIVE Sum(_)
        Sum(k) == IF k = 0 THEN 0
                  ELSE Sum(k - 1)
                       + (IF InFlight(k) /\ tbl[k] = tb THEN Occurrences(batch[k], r) ELSE 0)
    IN Sum(NumTasks)

\* C6: a drain moves the rows out of the live buffer: no row is in two in-flight
\* batches, or in an in-flight batch and the live buffer, at once, and with an
\* all-or-nothing store no row is persisted more than once.
C6_DrainOwnership ==
    \A tb \in DOMAIN buffer : \A r \in Rows :
        Occurrences(buffer[tb], r) + BatchOccurrences(tb, r)
            + Occurrences(Persisted(tb), r) <= 1

\* C6 witness: two tasks own a batch of the same table while the live buffer of
\* that table holds a row again.
C6_Witness ==
    \E t, u \in Tasks :
        /\ t # u
        /\ InFlight(t) /\ InFlight(u)
        /\ tbl[t] = tbl[u]
        /\ batch[t] # <<>> /\ batch[u] # <<>>

\* A task suspended on a store write or on a retry delay.
AwaitsStore(t) == pc[t] \in {"try", "sleep", "write"}

\* C7: a task suspended on a store write or on a backoff delay holds no buffer
\* mutex, also when flush_all found some buffer empty.
C7_NoLockAcrossIO ==
    \A t \in Tasks : AwaitsStore(t) => \A tb \in DOMAIN lock : lock[tb] # t

\* A task waiting in lock().await for a mutex somebody holds.
Blocked(t) == pc[t] \in {"lock", "relock"} /\ lock[tbl[t]] # NoTask

\* C8: never is every unfinished task waiting for a buffer lock, and no task
\* waits for a lock it holds itself.
C8_DeadlockFree ==
    /\ (\E t \in Tasks : pc[t] # "idle") => \E t \in Tasks : pc[t] # "idle" /\ ~Blocked(t)
    /\ \A t \in Tasks : pc[t] \in {"lock", "relock"} => lock[tbl[t]] # t
    /\ \A tb \in DOMAIN lock : lock[tb] # NoTask => pc[lock[tb]] # "idle"

\* C8 witness: a task waits for a mutex that another task holds across its
\* store write.
C8_Witness ==
    \E t, u \in Tasks :
        /\ t # u
        /\ Blocked(t)
        /\ lock[tbl[t]] = u
        /\ AwaitsStore(u)

\* Inserts that have been called on table tb and have not pushed yet.
Racing(tb) ==
    Cardinality({t \in Tasks : pc[t] = "lock" /\ op[t] # "flush_all" /\ tbl[t] = tb})

\* C9 as the spec states it: a buffer holds at most threshold - 1 rows plus the
\* inserts racing a drain, also after an abandoned flush returned its batch.
C9_AtMostThreshold ==
    \A tb \in DOMAIN buffer :
        lock[tb] = NoTask => Len(buffer[tb]) <= batch_size - 1 + Racing(tb)

\* C9 amended: a buffer that holds no batch returned by an abandoned flush holds
\* at most threshold - 1 rows plus the inserts racing a drain; one that holds such
\* a batch holds at least threshold rows, until the next drain.
C9_AtMostThresholdUnlessRestored ==
    \A tb \in DOMAIN buffer :
        /\ (lock[tb] = NoTask /\ ~restored[tb])
              => Len(buffer[tb]) <= batch_size - 1 + Racing(tb)
        /\ restored[tb] => Len(buffer[tb]) >= batch_size

\* C9 witness: a returned batch was drained again by the next insert (one block
\* of more than threshold rows) and the buffer is below the threshold again.
C9_Witness ==
    \E tb \in DOMAIN buffer :
        /\ ~restored[tb]
        /\ Len(buffer[tb]) < batch_size
        /\ \E k \in 1..Len(store[tb]) : Len(store[tb][k]) > batch_size

\* The j-th run of batch_size rows pushed to table tb (j from 0).
Segment(tb, j) == SubSeq(accepted[tb], j * batch_size + 1, (j + 1) * batch_size)

\* The batches of table tb handed to the store: written, or being written.
Issued(tb) ==
    {store[tb][k] : k \in 1..Len(store[tb])}
        \cup {batch[t] : t \in {u \in Tasks : InFlight(u) /\ tbl[u] = tb}}

IssuedCount(tb) ==
    Len(store[tb]) + Cardinality({t \in Tasks : InFlight(t) /\ tbl[t] = tb})

\* C10: with a store that never fails and before any flush_all, after n inserts
\* into a table exactly n div threshold flushes were issued, they carry the
\* successive runs of threshold rows in insertion order, and the last
\* n mod threshold rows are buffered.
C10_ThresholdSizing ==
    flushCalls = 0 =>
        \A tb \in DOMAIN buffer :
            LET n == Len(accepted[tb])
                q == n \div batch_size
            IN /\ IssuedCount(tb) = q
               /\ Issued(tb) = {Segment(tb, j) : j \in 0..(q - 1)}
               /\ buffer[tb] = SubSeq(accepted[tb], q * batch_size + 1, n)
               /\ Len(buffer[tb]) = n % batch_size

\* C10 witness: 2 * threshold - 1 inserts are done: one block of threshold rows
\* is written and threshold - 1 rows are buffered.
C10_Witness ==
    /\ flushCalls = 0
    /\ \A t \in Tasks : pc[t] = "idle"
    /\ \E tb \in DOMAIN buffer :
          /\ Len(accepted[tb]) = 2 * batch_size - 1
          /\ Len(store[tb]) = 1
          /\ Len(store[tb][1]) = batch_size
          /\ Len(buffer[tb]) = batch_size - 1

\* C11: while no row has ever been buffered, every flush_all finds every buffer
\* empty: it returns success, the buffers stay empty and no request of any kind
\* (no INSERT, no statement) has gone to the store, however often it is called.
C11_EmptyFlushNoRequests ==
    (\A tb \in DOMAIN buffer : accepted[tb] = <<>>) =>
        /\ queries = 0
        /\ ret # "err"
        /\ \A tb \in DOMAIN buffer : store[tb] = <<>> /\ buffer[tb] = <<>>

\* C12: an abandoned batch goes back to the front of the live buffer: after the
\* re-add the buffer is the batch, in its order, followed by the rows other tasks
\* inserted during the retries, in their order.
C12_FrontMerge ==
    [][\A t \in Tasks :
          (pc[t] = "relock" /\ pc'[t] = "idle")
             => buffer'[tbl[t]] = batch[t] \o buffer[tbl[t]]
      ]_vars

\* C14: a flush_all call returns only after it has visited the buffer of every
\* table, the last one included, also when the write of an earlier table failed.
C14_FlushAllCoversEveryTable ==
    [][\A t \in Tasks :
          (op[t] = "flush_all" /\ pc'[t] = "idle") => IsLast(impl, tbl[t])
      ]_vars

\* C15: a store write that failed for a non-transient cause (schema, credentials)
\* is not retried: the writer enters the retry delay only after a transient
\* failure, and makes no second attempt for the batch otherwise.
C15_NonTransientNotRetried ==
    [][\A t \in Tasks :
          /\ (pc[t] = "try" /\ pc'[t] = "sleep") => fault = "transient"
          /\ (pc[t] = "sleep" /\ pc'[t] = "try") => fault = "transient"
      ]_vars

\* C13: main() does not end, on either result of the stream, with rows handed to
\* the writers (fewer than one batch, so still buffered) and no flush_all called.
C13_ShutdownFlushes ==
    (mainPc \in {"exit_ok", "exit_err"} /\ \E tb \in DOMAIN submitted : submitted[tb] # <<>>)
        => flushCalls > 0

\* The success counter of a parser: the first AtomicU64 of its metrics pair; a
\* ParserEntry has one counter only.
SuccessCounter(s, c, name) == IF impl = "storage" THEN s[name].success ELSE c[name]

\* The failure counter of a parser: the second AtomicU64 of its metrics pair; a
\* ParserEntry has none.
FailureCounter(s, name) == IF impl = "storage" THEN s[name].failed ELSE 0

\* The positions of parse_and_store between the decoder's answer and its return.
StorePcs ==
    {"insert_transaction", "insert_payload", "insert_protocol_event",
     "insert_failed_transaction"}

\* The step in which thread t counts the decoder's answer for its instruction.
CountStep(t) ==
    IF impl = "storage"
    THEN wpc[t] = "parse" /\ wpc'[t] = "insert"
    ELSE wpc[t] \in {"insert_protocol_event", "insert_failed_transaction"} /\ wpc'[t] = "loop"

\* The decoder's answer thread t counts in that step: TRUE for Ok.
CountedOk(t) == IF impl = "storage" THEN ix'[t].error = <<>> ELSE ix[t].error = <<>>

\* C16: for every decoder invocation, the step that counts it adds exactly 1 to
\* the success counter of the instruction's protocol if the decode succeeded and
\* to its failure counter if it failed, leaves the other counter of the pair and
\* the counters of every other protocol alone; no other step changes a counter.
C16_OneCounterStep ==
    [][/\ \A t \in Tasks : CountStep(t) =>
             LET name == parser_map[ix[t].program] IN
             /\ SuccessCounter(metrics', counter', name)
                   = SuccessCounter(metrics, counter, name) + (IF CountedOk(t) THEN 1 ELSE 0)
             /\ FailureCounter(metrics', name)
                   = FailureCounter(metrics, name) + (IF CountedOk(t) THEN 0 ELSE 1)
             /\ \A other \in ParserNames \ {name} :
                   /\ SuccessCounter(metrics', counter', other)
                         = SuccessCounter(metrics, counter, other)
                   /\ FailureCounter(metrics', other) = FailureCounter(metrics, other)
       /\ (\A t \in Tasks : ~CountStep(t)) => (metrics' = metrics /\ counter' = counter)
      ]_vars

\* Decoder answers of parser name that parse_and_store has not returned for yet.
Pending(name) ==
    Cardinality({t \in Tasks : wpc[t] \in StorePcs /\ parser_map[ix[t].program] = name})

\* C17: whatever the interleaving of the threads, the counters of a protocol
\* have grown by the number of classifier invocations that incremented them, and
\* no counter ever decreases.
C17_NoLostUpdates ==
    /\ [](\A name \in ParserNames :
             /\ metrics[name].success = (IF impl = "storage" THEN decoded[name].ok ELSE 0)
             /\ metrics[name].failed = (IF impl = "storage" THEN decoded[name].err ELSE 0)
             /\ counter[name] = (IF impl = "clickhouse"
                                 THEN decoded[name].ok + decoded[name].err - Pending(name)
                                 ELSE 0))
    /\ [][\A name \in ParserNames :
             /\ metrics'[name].success >= metrics[name].success
             /\ metrics'[name].failed >= metrics[name].failed
             /\ counter'[name] >= counter[name]
         ]_vars

\* C17 witness: two threads decoded instructions of the same protocol at the same
\* time, both have incremented its success counter, and it reads 2.
C17_Witness ==
    \E t, u \in Tasks, name \in ParserNames :
        /\ t # u
        /\ wpc[t] = "insert" /\ wpc[u] = "insert"
        /\ parser_map[ix[t].program] = name /\ parser_map[ix[u].program] = name
        /\ ix[t].error = <<>> /\ ix[u].error = <<>>
        /\ metrics[name].success = 2

\* The Transaction rows of a sequence that carry success = 1 for parser name.
SuccessRows(rows, name) ==
    Cardinality({k \in 1..Len(rows) : rows[k].protocol_name = name /\ rows[k].success = 1})

\* All handlers are between instructions or have returned.
Quiet == \A t \in Tasks : wpc[t] \in {"idle", "loop"}

\* C18: when the only instruction handled so far belongs to a registered program
\* and its decode succeeded, the transactions writer was handed exactly one
\* row, with success = 1, the failed_transactions writer none, and the success
\* counter of the protocol went from 0 to 1; in general the success rows of a
\* protocol are as many as its successful decodes.
C18_SuccessRecord ==
    /\ \A name \in ParserNames :
          (taken = 1 /\ Quiet /\ decoded[name].ok = 1) =>
              /\ Len(submitted["transactions"]) = 1
              /\ submitted["transactions"][1].protocol_name = name
              /\ submitted["transactions"][1].success = 1
              /\ submitted["failed_transactions"] = <<>>
              /\ SuccessCounter(metrics, counter, name) = 1
    /\ \A name \in ParserNames :
          SuccessRows(submitted["transactions"], name) = decoded[name].ok

\* C18 witness: one instruction was taken, decoded well and stored, and the
\* handler is back between instructions.
C18_Witness ==
    /\ taken = 1
    /\ Quiet
    /\ \E name \in ParserNames :
          /\ decoded[name].ok = 1
          /\ SuccessCounter(metrics, counter, name) = 1
          /\ Len(submitted["transactions"]) = 1

\* Text e occurs in text s.
Contains(s, e) == \E k \in 1..(Len(s) - Len(e) + 1) : SubSeq(s, k, k + Len(e) - 1) = e

\* C19: when the only instruction handled so far belongs to a registered program
\* and its decode failed with error e, the failed_transactions writer was handed
\* exactly one row, whose error text contains e, the failure counter of the
\* protocol is 1, and the transactions writer was handed no row.
C19_FailureRecord ==
    \A name \in ParserNames :
        (taken = 1 /\ Quiet /\ decoded[name].err = 1) =>
            /\ Len(submitted["failed_transactions"]) = 1
            /\ submitted["failed_transactions"][1].protocol_name = name
            /\ \E e \in DecodeErrors : Contains(submitted["failed_transactions"][1].error, e)
            /\ FailureCounter(metrics, name) = 1
            /\ submitted["transactions"] = <<>>

\* C20: the decoder is invoked only for an instruction whose program index and
\* account indices all lie inside the resolved account list; for any other
\* instruction no row is submitted and no counter changes.
C20_MalformedSkipped ==
    [][\A t \in Tasks :
          (wpc[t] = "loop" /\ wpc'[t] = "parse") =>
              \A k \in 1..Len(ix'[t].accounts) : ix'[t].accounts[k] < Len(all_accounts)
      ]_vars

\* C21: a transaction whose on-chain status is a failure is skipped: the handler
\* returns at once, no decoder is invoked, no row is submitted to a writer and
\* no counter changes, whatever instructions the transaction contains.
C21_FailedOnChainSkipped ==
    status = "Err" =>
        /\ \A t \in Tasks : wpc[t] = "idle"
        /\ \A n \in ParserNames : decoded[n] = [ok |-> 0, err |-> 0]
        /\ \A tb \in TableSet(impl) : submitted[tb] = <<>>
        /\ metrics = metrics_new
        /\ counter = counter_new

\* The handler positions at which the last insert of an instruction is awaited.
LastInsertPcs == {"insert", "insert_protocol_event", "insert_failed_transaction"}

\* One row has been appended to one table's submissions, the rest is as it was.
Appended(tb) ==
    /\ Len(submitted'[tb]) = Len(submitted[tb]) + 1
    /\ SubSeq(submitted'[tb], 1, Len(submitted[tb])) = submitted[tb]
    /\ \A o \in TableSet(impl) \ {tb} : submitted'[o] = submitted[o]

C23_DuplicateRejected ==
    [][\A a \in DOMAIN parsers : a \in DOMAIN parsers' /\ parsers'[a] = parsers[a]]_vars

\* The ids of the registrations made so far are pairwise distinct.
DistinctIds ==
    \A j, k \in 1..Len(registered) : registered[j].id = registered[k].id => j = k

\* C24: after registrations under distinct ids, has/lookup answers absent for an
\* id never registered and exactly the registered entry for a registered one,
\* and the listing holds exactly one (name, id) pair per registered id.
C24_Dispatch ==
    DistinctIds =>
        /\ \A a \in RegIds \cup {"wallet"} :
              IF \E k \in 1..Len(registered) : registered[k].id = a
              THEN /\ contains_key(parsers, a)
                   /\ \E k \in 1..Len(registered) :
                         /\ registered[k].id = a
                         /\ hash_get(parsers, a) = <<registered[k].entry>>
                   /\ Cardinality({p \in list_parsers(parsers) : p[2] = a}) = 1
                   /\ \E k \in 1..Len(registered) :
                         <<registered[k].entry.name, a>> \in list_parsers(parsers)
              ELSE /\ ~contains_key(parsers, a)
                   /\ hash_get(parsers, a) = <<>>
                   /\ \A p \in list_parsers(parsers) : p[2] # a
        /\ Cardinality(list_parsers(parsers)) = Len(registered)
        /\ parser_count(parsers) = Len(registered)

\* C24 witness: three registrations under three distinct ids have been made.
C24_Witness ==
    /\ DistinctIds
    /\ Len(registered) = 3
    /\ parser_count(parsers) = 3

\* C25: construction checks the server's health before it sends any schema
\* statement; when the check fails, construction returns an error, no DROP and
\* no CREATE has been sent, and no writer exists.
C25_HealthCheckFirst ==
    /\ statements # <<>> => statements[1] = "SELECT 1"
    /\ server = "down" =>
          /\ \A k \in 1..Len(statements) : statements[k] = "SELECT 1"
          /\ built = 0
          /\ mainPc \in {"start", "new", "new_with_clear", "exit_err"}

\* The caller asked for the tables to be cleared at start.
ClearRequested ==
    \/ clear_env = "true"
    \/ impl = "storage" /\ clear_env = "unset" /\ config_file = "true"

\* C26: a DROP is sent only when the caller asked for the clear at start, and a
\* TRUNCATE only by the clear that CLEAR_DATA_AFTER asks for; otherwise neither
\* is ever sent.
C26_ResetOnlyOnOptIn ==
    [][\A k \in (Len(statements) + 1)..Len(statements') :
          /\ statements'[k] = "DROP" => ClearRequested
          /\ statements'[k] = "TRUNCATE" => mainPc = "clear_data"
      ]_vars

\* A statement of the schema was refused and the refusal was not ignored.
InitFailed ==
    \E k \in 1..Len(statements) :
       /\ statements[k] # "TRUNCATE"
       /\ refuses(server, statements[k])
       /\ ~ignored(impl, statements[k])

\* C27: the process ends with a non-zero status when the initialisation of the
\* schema or the authentication fails and when the flush of the shutdown
\* fails; it ends with zero otherwise.
C27_ExitStatus ==
    /\ InitFailed => mainPc = "exit_err"
    /\ mainPc = "exit_ok" => flushed # "Err"

\* The date a text of the form YYYY-MM-DD names: <<year, month, day>>, or <<>>
\* when the text has another form.
ParseDate(text) ==
    LET digit == <<"0", "1", "2", "3", "4", "5", "6", "7", "8", "9">>
        IsDigit(c) == \E v \in 0..9 : digit[v + 1] = c
        Val(c) == CHOOSE v \in 0..9 : digit[v + 1] = c
        Num(from, to) ==
            LET RECURSIVE N(_)
                N(k) == IF k < from THEN 0 ELSE 10 * N(k - 1) + Val(text[k])
            IN N(to)
    IN IF /\ Len(text) = 10
          /\ text[5] = "-" /\ text[8] = "-"
          /\ \A k \in {1, 2, 3, 4, 6, 7, 9, 10} : IsDigit(text[k])
       THEN <<Num(1, 4), Num(6, 7), Num(9, 10)>>
       ELSE <<>>

\* The number of days from 1970-01-01 to the day <<year, month, day>>.
DayNumber(ymd) ==
    LET Leap(y) == (y % 4 = 0 /\ y % 100 # 0) \/ y % 400 = 0
        before == <<0, 31, 59, 90, 120, 151, 181, 212, 243, 273, 304, 334>>
        y1 == ymd[1] - 1
    IN (365 * y1 + y1 \div 4 - y1 \div 100 + y1 \div 400) - 719162
       + before[ymd[2]] + (IF ymd[2] > 2 /\ Leap(ymd[1]) THEN 1 ELSE 0)
       + ymd[3] - 1

\* <<year, month, day>> is a date of the Gregorian calendar; 29 February exists
\* in leap years only.
ValidDate(ymd) ==
    /\ ymd # <<>>
    /\ ymd[2] \in 1..12
    /\ ymd[3] >= 1
    /\ ymd[3] <= IF ymd[2] = 2
                 THEN (IF (ymd[1] % 4 = 0 /\ ymd[1] % 100 # 0) \/ ymd[1] % 400 = 0
                       THEN 29 ELSE 28)
                 ELSE IF ymd[2] \in {4, 6, 9, 11} THEN 30 ELSE 31

C29_CalendarRoundTrip ==
    dims # <<>> =>
        /\ ValidDate(ParseDate(dims.date))
        /\ DayNumber(ParseDate(dims.date)) = block_time \div 86400
        /\ dims.hour = (block_time % 86400) \div 3600
        /\ dims.hour \in 0..23

\* C29 witness: the last second of 29 February 2024 has been given its date
\* by compute_time_dimensions.
C29_Witness ==
    /\ impl = "clickhouse"
    /\ block_time = 19782 * 86400 + 86399
    /\ dims # <<>>
    /\ dims.date = <<"2", "0", "2", "4", "-", "0", "2", "-", "2", "9">>
    /\ dims.hour = 23

\* C30: every Transaction row of a successful decode has a non-empty
\* protocol_name and a non-empty instruction_type, whatever text the decoder's
\* result prints as; every Transaction row of a failed decode carries the
\* sentinel instruction_type ParseFailed.
C30_NonEmptyLabels ==
    \A k \in 1..Len(submitted["transactions"]) :
       LET row == submitted["transactions"][k] IN
       /\ row.success = 1 =>
             /\ row.protocol_name # ""
             /\ row.instruction_type # <<>>
       /\ row.success = 0 => row.instruction_type = <<"ParseFailed">>

\* C30 witness: parser.rs has submitted the row of a successful decode, whose
\* text holds a delimiter, and the row of a failed decode.
C30_Witness ==
    /\ impl = "clickhouse"
    /\ Len(parsed) > 1
    /\ \E j, k \in 1..Len(submitted["transactions"]) :
          /\ submitted["transactions"][j].success = 1
          /\ submitted["transactions"][j].instruction_type = <<parsed[1]>>
          /\ submitted["transactions"][k].success = 0

\* C31: decode and write errors stay inside the handler: a handler returns only
\* by leaving its loop after the last instruction (Ok(())), the answer to an
\* insert is followed by the next instruction, and a decode error brings about
\* one FailedTransaction row and one increment of the protocol's failure
\* counter, no Transaction row and no change of a success counter.
C31_ErrorsStayLocal ==
    [][\A t \in Tasks :
          /\ (wpc[t] # "idle" /\ wpc'[t] = "idle") => wpc[t] = "loop"
          /\ (wpc[t] \in LastInsertPcs /\ wpc'[t] # wpc[t]) => wpc'[t] = "loop"
          /\ (wpc'[t] # wpc[t] /\ (ix[t].error # <<>> \/ ix'[t].error # <<>>)) =>
                /\ submitted'["transactions"] = submitted["transactions"]
                /\ \A name \in ParserNames :
                      SuccessCounter(metrics', counter', name)
                         = SuccessCounter(metrics, counter, name)
                /\ ix[t].error = <<>> =>
                      /\ Len(submitted'["failed_transactions"])
                            = Len(submitted["failed_transactions"]) + 1
                      /\ FailureCounter(metrics', parser_map[ix[t].program])
                            = FailureCounter(metrics, parser_map[ix[t].program]) + 1
      ]_vars

\* The rows handed to the protocol_events writer that carry the protocol's name.
EventsOf(name) ==
    {k \in DOMAIN submitted["protocol_events"] :
        submitted["protocol_events"][k].protocol = name}

\* C32: where there is a protocol_events writer (clickhouse.rs), it is handed
\* one ProtocolEvent per successfully decoded instruction (never more events
\* than successful decodes, and as many once every handler is between
\* instructions), and a handler that is on the decode-failure path of an
\* instruction submits no ProtocolEvent and no TransactionPayload.
C32_EventOnlyOnSuccess ==
    /\ [](impl = "clickhouse" =>
            \A name \in ParserNames :
               /\ Cardinality(EventsOf(name)) <= decoded[name].ok
               /\ Quiet => Cardinality(EventsOf(name)) = decoded[name].ok)
    /\ [][impl = "clickhouse" =>
            \A t \in Tasks :
               (wpc'[t] # wpc[t] /\ (ix[t].error # <<>> \/ ix'[t].error # <<>>)) =>
                  /\ submitted'["protocol_events"] = submitted["protocol_events"]
                  /\ submitted'["transaction_payloads"] = submitted["transaction_payloads"]
       ]_vars

\* C32 witness: every handler is between instructions after one decode that
\* succeeded and one that failed; there is one event and one payload.
C32_Witness ==
    /\ impl = "clickhouse"
    /\ Quiet
    /\ \E a, b \in ParserNames : decoded[a].ok = 1 /\ decoded[b].err = 1
    /\ \A a \in ParserNames : decoded[a].ok + decoded[a].err <= 1
    /\ Len(submitted["protocol_events"]) = 1
    /\ Len(submitted["transaction_payloads"]) = 1
    /\ Len(submitted["failed_transactions"]) = 1

\* The positions of a task inside the retry loop of flush_*_batch.
RetryPcs == {"try", "sleep"}

\* C33: one flush of a batch makes between one and max_retries = 3 attempts,
\* every one with the same batch for the same table; an attempt that succeeds
\* ends the flush; the task waits only after a failed attempt that is not the
\* last one, and the wait is followed by the next attempt; and whatever the
\* store answers, the task leaves the retry loop.
C33_BoundedAttempts ==
    /\ [](\A t \in Tasks : pc[t] \in RetryPcs =>
             /\ attempt[t] \in 1..max_retries
             /\ batch[t] # <<>>
             /\ pc[t] = "sleep" => attempt[t] < max_retries)
    /\ [][\A t \in Tasks :
            /\ (pc[t] \in RetryPcs /\ pc'[t] \in RetryPcs) =>
                  batch'[t] = batch[t] /\ tbl'[t] = tbl[t]
            /\ (pc[t] \notin RetryPcs /\ pc'[t] \in RetryPcs) =>
                  pc'[t] = "try" /\ attempt'[t] = 1
            /\ (pc[t] = "try" /\ pc'[t] # "try" /\ store' # store) => pc'[t] \notin RetryPcs
            /\ (pc[t] = "try" /\ pc'[t] \notin RetryPcs /\ store' = store) =>
                  attempt[t] = max_retries
            /\ (pc[t] = "sleep" /\ pc'[t] # "sleep") =>
                  pc'[t] = "try" /\ attempt'[t] = attempt[t] + 1
       ]_vars
    /\ \A t \in Tasks : []<>(pc[t] \notin RetryPcs)

\* C33 witness: a flush has made its third attempt and the store has refused it:
\* the task is leaving the loop with the error, having written nothing.
C33_Witness ==
    \E t \in Tasks :
        /\ impl = "storage"
        /\ pc[t] = "relock"
        /\ attempt[t] = max_retries
        /\ batch[t] # <<>>
        /\ store[tbl[t]] = <<>>

\* C34: for every table at most one task is inside a drain-and-persist
\* operation (it has drained a batch and is persisting it, waiting to retry, or
\* about to give it back).
C34_OneFlushPerTable ==
    \A tb \in DOMAIN buffer :
        Cardinality({t \in Tasks : InFlight(t) /\ tbl[t] = tb}) <= 1

\* C35: once the store has stopped failing after an abandoned threshold flush,
\* every accepted row can still be persisted exactly once: it is, counted over
\* the table's buffer, the batches in flight and the store, there exactly once;
\* and once the buffer is drained and no flush is in flight, it is persisted.
C35_RecoveryPersistsAll ==
    fault = "none" =>
        \A tb \in DOMAIN buffer : \A r \in RowsOf(accepted[tb]) :
            /\ Occurrences(buffer[tb], r) + InBatches(tb, r)
                  + Occurrences(Persisted(tb), r) = 1
            /\ (buffer[tb] = <<>> /\ \A t \in Tasks : ~(InFlight(t) /\ tbl[t] = tb))
                  => Occurrences(Persisted(tb), r) = 1

\* The persisted rows of a table that carry the protocol's name.
PersistedOf(tb, name) ==
    {k \in DOMAIN Persisted(tb) : protocol_name[Persisted(tb)[k]] = name}

\* C36: with a store that never fails, when every handler has returned and
\* flush_all has returned after them, for every registered protocol the rows
\* persisted in transactions under its name are as many as its success counter,
\* those in failed_transactions as many as its failure counter, and both
\* buffers are empty.
C36_RowsMatchCounters ==
    (flushCalls > 0 /\ \A t \in Tasks : wpc[t] = "idle" /\ pc[t] = "idle") =>
        /\ \A tb \in DOMAIN buffer : buffer[tb] = <<>>
        /\ \A name \in ParserNames :
              /\ Cardinality(PersistedOf("transactions", name))
                    = SuccessCounter(metrics, counter, name)
              /\ Cardinality(PersistedOf("failed_transactions", name))
                    = FailureCounter(metrics, name)

\* C36 witness: flush_all has returned after handlers that counted two
\* successes and one failure; three rows are persisted.
C36_Witness ==
    /\ flushCalls > 0
    /\ \A t \in Tasks : wpc[t] = "idle" /\ pc[t] = "idle"
    /\ \E a, b \in ParserNames : metrics[a].success = 2 /\ metrics[b].failed = 1
    /\ Len(Persisted("transactions")) = 2
    /\ Len(Persisted("failed_transactions")) = 1

\* C37: the day of the week compute_time_dimensions returns for block_time is
\* (floor(block_time / 86400) + 4) mod 7, for block_time = 0 too, so that it is
\* the same for all the block times of one UTC day.
C37_DayOfWeek ==
    (impl = "clickhouse" /\ dims # <<>>) =>
        dims.day_of_week = ((block_time \div 86400) + 4) % 7

\* C38: the decoder is invoked only for an instruction whose program has a
\* parser; a step that hands a row to a writer or changes a counter is the step
\* of a handler working on such an instruction; and the pass of the loop that
\* skips an instruction changes nothing but the handler's place in its
\* transaction: the handler stays in its loop for the remaining instructions.
C38_UnregisteredSkipped ==
    [][/\ \A t \in Tasks :
             (wpc[t] # "parse" /\ wpc'[t] = "parse") => has_parser(ix'[t].program)
       /\ (submitted' # submitted \/ metrics' # metrics \/ counter' # counter) =>
             \E t \in Tasks : wpc'[t] # wpc[t] /\ has_parser(ix[t].program)
       /\ (taken' # taken /\ wpc' = wpc) =>
             /\ UNCHANGED <<submitted, metrics, counter, decoded, ix>>
             /\ \E t \in Tasks : wpc'[t] = "loop"
      ]_vars

\* C38 witness: of the two instructions taken from the only transaction one was
\* skipped without a trace and the one after it was decoded and stored.
C38_Witness ==
    /\ txs = 1
    /\ taken = 2
    /\ Quiet
    /\ \E a \in ParserNames :
          /\ decoded[a].ok = 1 /\ decoded[a].err = 0
          /\ \A b \in ParserNames \ {a} : decoded[b].ok + decoded[b].err = 0
    /\ Len(submitted["transactions"]) = 1

\* The decoded payload spells the word.
Spells(word) == \E k \in DOMAIN parsed : parsed[k] = word

\* C39: every ProtocolEvent carries the one event type that the words of the
\* decoded payload decide, whatever their order: trade when Buy or Sell is
\* there, else swap when Swap is, else liquidity_add when AddLiquidity is, else
\* liquidity_remove when RemoveLiquidity is, else unknown.
C39_EventTypePrecedence ==
    impl = "clickhouse" =>
        \A k \in DOMAIN submitted["protocol_events"] :
            submitted["protocol_events"][k].event_type =
                (IF Spells("Buy") \/ Spells("Sell") THEN "trade"
                 ELSE IF Spells("Swap") THEN "swap"
                 ELSE IF Spells("AddLiquidity") THEN "liquidity_add"
                 ELSE IF Spells("RemoveLiquidity") THEN "liquidity_remove"
                 ELSE "unknown")

\* C39 witness: a payload that spells Swap before Buy has given a trade event.
C39_Witness ==
    /\ impl = "clickhouse"
    /\ parsed = <<"Route", " ", "{", " ", "Swap", " ", "Buy", " ", "}">>
    /\ Len(submitted["protocol_events"]) = 1
    /\ submitted["protocol_events"][1].event_type = "trade"

====
